---- MODULE Spec2Model ----
(***************************************************************************)
(* State-machine model of the MIDI player core (src/src/midi.rs):          *)
(* the shared atomics SPEED / IS_PLAY / PLAYING / PAUSE, the mutex-guarded  *)
(* event sequence and file name, the 2-thread pool, the extraction task     *)
(* (Midi::init), the playback task (Midi::playback -> tune -> Midi::play)   *)
(* and the controller that writes the atomics and submits tasks.            *)
(*                                                                          *)
(* Granularity: one action per atomic load/store, per mutex acquisition and *)
(* per blocking call, so that every interleaving of the two pool workers    *)
(* and the controller at those points is a behaviour of the model.          *)
(* pool.spawn hands the closure to an idle worker; a task that would wait   *)
(* in the pool's queue is a task submitted later, since the closures        *)
(* capture nothing of the state at submission.                              *)
(***************************************************************************)
EXTENDS Integers, Sequences, FiniteSets

\* ---------------------------------------------------------------- bounds
MaxLen == 2              \* length of the event sequences given to the tuner
MaxSinkCount == 2        \* saturation of the counter of sink calls under pause
MaxClock == 3            \* ms a session's clock may be advanced to by overhead
MaxTracks == 2           \* tracks of the files given to the extraction
MaxEvents == 3           \* events of one file, all tracks together

\* ------------------------------------------------------ program constants
PoolThreads == 2         \* ThreadPoolBuilder::num_threads(2)
ScanLimit == 21          \* `offset > 21` / `offset < -21` in tune_offset

MAP ==
  { 24, 26, 28, 29, 31, 33, 35, 36, 38, 40, 41, 43, 45, 47, 48, 50, 52, 53,
    55, 57, 59, 60, 62, 64, 65, 67, 69, 71, 72, 74, 76, 77, 79, 81, 83, 84,
    86, 88, 89, 91, 93, 95 }

Workers == 1..PoolThreads

\* the thread of convert_from_midi, outside the pool
Exporter == PoolThreads + 1

\* --------------------------------------------------------------- inputs
None == "None"
Paths == {"a.mid", "bad.mid"}
Speeds == {1, 2}

Event(press, delay) == [press |-> press, delay |-> delay]

\* ------------------------------------------------------- the extraction
DefaultFps == 480        \* `_ => 480.0`
DefaultTempo == 500000   \* let mut tempo = 500000.0

\* midly's TrackEvent { delta, kind }; NoteOff stands for every kind the walk
\* sends to its `_ => None` arm
Tempo(delta, t) ==
  [delta |-> delta, kind |-> "Tempo", key |-> 0, vel |-> 0, tempo |-> t]

NoteOn(delta, key, vel) ==
  [delta |-> delta, kind |-> "NoteOn", key |-> key, vel |-> vel, tempo |-> 0]

NoteOff(delta, key) ==
  [delta |-> delta, kind |-> "NoteOff", key |-> key, vel |-> 0, tempo |-> 0]

\* Smf { header: Header { timing }, tracks }; ticks = 0 stands for Timecode
Metrical(ticks, tracks) == [metrical |-> TRUE, ticks |-> ticks, tracks |-> tracks]

Timecode(tracks) == [metrical |-> FALSE, ticks |-> 0, tracks |-> tracks]

\* match smf.header.timing { Timing::Metrical(fps) => fps, _ => 480.0 }
Fps(file) == IF file.metrical THEN file.ticks ELSE DefaultFps

\* one track: tick += event.delta; RawEvent { event: event.kind, tick }
RECURSIVE TrackTicks(_, _, _, _)
TrackTicks(track, i, tick, out) ==
  IF i > Len(track)
    THEN out
    ELSE TrackTicks(track, i + 1, tick + track[i].delta,
                    Append(out, [event |-> track[i],
                                 tick |-> tick + track[i].delta]))

\* .map(|track| ..).flatten().collect(): the tracks one after the other
RECURSIVE Flatten(_, _)
Flatten(tracks, t) ==
  IF t > Len(tracks)
    THEN << >>
    ELSE TrackTicks(tracks[t], 1, 0, << >>) \o Flatten(tracks, t + 1)

\* |e| e.tick as u64: the ticks are sums of u28 deltas, whole and >= 0
SortKey(raw) == raw.tick

\* the place of x in a sorted vector; the sort is stable, x goes after the
\* elements of equal key
InsertAtFront(sorted, x) ==
  Cardinality({ j \in 1..Len(sorted) : SortKey(sorted[j]) < SortKey(x) })

InsertAt(sorted, x) ==
  Cardinality({ j \in 1..Len(sorted) : SortKey(sorted[j]) <= SortKey(x) })

RECURSIVE SortFrom(_, _, _)
SortFrom(raw, i, sorted) ==
  IF i > Len(raw)
    THEN sorted
    ELSE LET k == InsertAt(sorted, raw[i])
         IN  SortFrom(raw, i + 1,
                      SubSeq(sorted, 1, k) \o << raw[i] >>
                        \o SubSeq(sorted, k + 1, Len(sorted)))

\* raw_events.par_sort_by_key(|e| e.tick as u64)
Unsorted(raw) == raw

par_sort_by_key(raw) == SortFrom(raw, 1, << >>)

\* (event.tick - tick) * (tempo / 1000.0 / fps); the product is taken before
\* the quotient, and the inputs keep the quotient whole
DelayMs(ticks, tempo, fps) == (ticks * tempo) \div (1000 * fps)

\* the arm of the walk that returns Some(Event {..})
EmitsAnyNoteOn(kind, vel) == kind = "NoteOn"

Emits(kind, vel) == kind = "NoteOn" /\ vel > 0

\* the filter_map closure over the sorted raw events, with its captured
\* `tick` and `tempo`
RECURSIVE Walk(_, _, _, _, _, _)
Walk(raw, i, tick, tempo, fps, out) ==
  IF i > Len(raw)
    THEN out
    ELSE LET e == raw[i].event
         IN  IF e.kind = "Tempo"
               THEN Walk(raw, i + 1, tick, e.tempo, fps, out)
               ELSE IF Emits(e.kind, e.vel)
                      THEN Walk(raw, i + 1, raw[i].tick, tempo, fps,
                                Append(out,
                                       Event(e.key,
                                             DelayMs(raw[i].tick - tick,
                                                     tempo, fps))))
                      ELSE Walk(raw, i + 1, tick, tempo, fps, out)

\* what the init task stores for a parsed file
extract(file) ==
  Walk(par_sort_by_key(Flatten(file.tracks, 1)), 1, 0, DefaultTempo,
       Fps(file), << >>)

ReadOk(path) == path # "bad.mid"

\* what std::fs::read + Smf::parse yield for the file that can be read
FileContent(path) ==
  Metrical(24, << << NoteOn(0, 2, 1), NoteOn(24, 4, 1) >> >>)

\* the sequence extracted from it: << Event(2, 0), Event(4, 500) >>
Song == extract(FileContent("a.mid"))

\* pitches and sequences the tuner is exercised on
Pitches == {2, 23, 25, 60, 61, 117}

TuneInputs ==
  UNION { [1..n -> {Event(p, 0) : p \in Pitches}] : n \in 0..MaxLen }

\* the files the extraction is exercised on: deltas of 0 and 24 ticks, a
\* tempo change, two sounding note-ons, a silent note-on and a note-off
TrackEvents ==
  { Tempo(0, 1000000), Tempo(24, 1000000), NoteOn(0, 62, 1),
    NoteOn(24, 60, 1), NoteOn(0, 60, 0), NoteOff(0, 60) }

\* the ways of cutting the events s into k tracks, empty tracks included
RECURSIVE Splits(_, _)
Splits(s, k) ==
  IF k = 1
    THEN { << s >> }
    ELSE UNION { { << SubSeq(s, 1, c) >> \o rest :
                     rest \in Splits(SubSeq(s, c + 1, Len(s)), k - 1) } :
                 c \in 0..Len(s) }

SmfInputs ==
  LET flat == UNION { [1..n -> TrackEvents] : n \in 0..MaxEvents }
      tracks == UNION { Splits(s, MaxTracks) : s \in flat }
  IN  { Metrical(24, t) : t \in tracks } \cup { Timecode(t) : t \in tracks }

\* delays and sequences the scheduler is exercised on
Delays == {0, 1, 3}

TimeInputs ==
  UNION { [1..n -> {Event(60, d) : d \in Delays}] : n \in 0..MaxLen }

VARIABLES
  SPEED, IS_PLAY, PLAYING, PAUSE,   \* the atomics
  file_name, events,                \* Midi's mutex-guarded fields
  eventsLock,                       \* holder of the events mutex, 0 = free
  aborted,                          \* the process was aborted by a panicking task
  pc,                               \* position of each pool worker
  tuned, shift, len,                \* locals of playback / tune
  up_n, up_max, up_shift,           \* upward scan: calls made, running winner
  down_n, down_max, down_shift,     \* downward scan: calls made, running winner
  downBy,                           \* worker that stole the downward closure, 0 = none
  idx,                              \* index of the event `e` of play's for loop
  path,                             \* local of init
  sink,                             \* history: arguments of the sink calls of the session
  snap,                             \* history: the sequence locked by play
  observedAt,                       \* history: event at which IS_PLAY was read false
  pausedSeen,                       \* history: the session spun in the pause loop
  sinkSincePause,                   \* history: sink calls since PAUSE was last set
  fileBefore,                       \* history: file_name when the init task picked
  smf,                              \* local of init: the parsed file
  input_time, playback_time,        \* locals of play, playback_time as of the
                                    \* session's last reading of the clock
  scored,                           \* history: the sequence tune took its len from
  parsed,                           \* history: << the file the stored sequence is from >>
  owed,                             \* history: sum of e.delay / SPEED of the session
  segSum,                           \* history: input_time of the run segments closed
  readAt,                           \* history: playback_time as read for event `e`
  wokeAt                            \* history: playback_time when e's sleep ended

atomics == << SPEED, IS_PLAY, PLAYING, PAUSE >>
shared == << file_name, events, eventsLock, aborted >>
scan == << up_n, up_max, up_shift, down_n, down_max, down_shift, downBy >>
clock == << input_time, playback_time >>
timehist == << owed, segSum, readAt, wokeAt >>
locals == << tuned, shift, len, scan, idx, path, smf, clock >>
history == << sink, snap, observedAt, pausedSeen, sinkSincePause, fileBefore,
             scored, parsed, timehist >>
vars == << SPEED, IS_PLAY, PLAYING, PAUSE, file_name, events, eventsLock,
           aborted, pc, tuned, shift, len, up_n, up_max, up_shift, down_n,
           down_max, down_shift, downBy, idx, path, sink, snap, observedAt,
           pausedSeen, sinkSincePause, fileBefore, smf, input_time,
           playback_time, scored, parsed, owed, segSum, readAt, wokeAt >>

\* ------------------------------------------------------------ the tuner

\* tune_offset, one call: the hit count of `offset` over the locked sequence.
\* hit = hit_count / len is kept as its numerator; len is fixed for one tune.
\* hit_vec is read only by the enumerate loop that follows the scan, so the
\* stepwise actions keep that loop's running max / shift instead of the vector.
HitCount(evs, offset) ==
  Cardinality({ i \in 1..Len(evs) : evs[i].press + offset \in MAP })

HitPush(evs, hit_vec, offset) == Append(hit_vec, HitCount(evs, offset))

\* the return test made after the push
ScanStop(offset, direction) ==
  IF direction THEN offset > ScanLimit ELSE offset < -ScanLimit

\* the whole recursion of tune_offset on one unchanged sequence
RECURSIVE tune_offset(_, _, _, _)
tune_offset(evs, hit_vec, offset, direction) ==
  LET pushed == HitPush(evs, hit_vec, offset)
  IN  IF ScanStop(offset, direction)
        THEN pushed
        ELSE tune_offset(evs, pushed,
                         IF direction THEN offset + 1 ELSE offset - 1,
                         direction)

\* `x > up_max` on f32 quotients x = c / n:  n = 0 gives NaN (c = 0) or +inf
HitGtOrEqual(x, max, n) == x >= max

HitGt(x, max, n) == IF n = 0 THEN x > 0 /\ max = 0 ELSE x > max

\* for (i, x) in hit.into_iter().enumerate() { if x > max { max = x; shift = i } }
RECURSIVE ScanFold(_, _, _, _, _)
ScanFold(hit_vec, n, i, max, best) ==
  IF i > Len(hit_vec)
    THEN best
    ELSE IF HitGt(hit_vec[i], max, n)
           THEN ScanFold(hit_vec, n, i + 1, hit_vec[i], i - 1)
           ELSE ScanFold(hit_vec, n, i + 1, max, best)

ScanWinner(hit_vec, n) == ScanFold(hit_vec, n, 1, 0, 0)

\* if up_shift > down_shift { return up_shift; } -down_shift
Combine(up, down) ==
  IF up > down THEN up ELSE -down

tune(evs) ==
  Combine(ScanWinner(tune_offset(evs, << >>, 0, TRUE), Len(evs)),
          ScanWinner(tune_offset(evs, << >>, 0, FALSE), Len(evs)))

\* ------------------------------------------------------------- the player

\* send(key + shift)
DeliveredNoShift(key, s) == key

Delivered(key, s) == key + s

\* match IS_PLAY.load() { true => f(e.press), false => break }
CancelBranchAlways(is_play) == "sink"

CancelBranch(is_play) == IF is_play THEN "sink" ELSE "break"

\* if PAUSE.load() { loop { ... } }
PauseBranchNever(pause) == "schedule"

PauseBranch(pause) == IF pause THEN "pause_spin" ELSE "schedule"

\* the event processed once the pause loop breaks: still `e`
ResumeIndexSkip(i) == i + 1

ResumeIndex(i) == i

\* f64 milliseconds are held as whole counts of half a millisecond: exact
\* for delays of whole milliseconds and the speeds of Speeds
Fixed(ms) == 2 * ms

\* e.delay / SPEED.load(Relaxed)
SpeedAdjusted(delay, speed) == Fixed(delay) \div speed

\* input_time = e.delay, the assignment made when the pause loop breaks
ResumeInput(delay) == Fixed(delay)

\* (input_time - playback_time) as u64: the cast truncates toward zero and
\* saturates at 0 for a negative difference
current_time_naive(input, playback) == input \div 2

current_time(input, playback) ==
  LET d == input - Fixed(playback)
  IN  IF d <= 0 THEN 0 ELSE d \div 2

\* let events = self.events.lock().unwrap(): the holder of the mutex while
\* the binding lives
GuardDropped(w) == 0

Guard(w) == w

\* position after the loop body for event i of n: next element or loop exit
LoopPc(i, n) == IF i <= n THEN "pause_check" ELSE "play_end"

PlaybackPcs ==
  { "tune_len", "tune_up", "tune_down", "tune_join", "play_lock",
    "pause_check", "pause_spin", "schedule", "cancel_check", "play_end",
    "clear_playing", "clear_is_play" }

LoopPcs == { "pause_check", "pause_spin", "schedule", "cancel_check" }

\* pool.spawn: the closure starts on the first idle worker of the pool
Spawns(w) ==
  /\ pc[w] = "idle"
  /\ \A v \in Workers : v < w => pc[v] # "idle"

\* ------------------------------------------------------------------ Init
\* no init task has parsed a file, no play has started its clock
InitLocals ==
  /\ smf = [w \in Workers |-> None]
  /\ input_time = [w \in Workers |-> 0]
  /\ playback_time = [w \in Workers |-> 0]
  /\ scored = [w \in Workers |-> << >>]
  /\ parsed = << >>
  /\ owed = [w \in Workers |-> 0]
  /\ segSum = [w \in Workers |-> 0]
  /\ readAt = [w \in Workers |-> 0]
  /\ wokeAt = [w \in Workers |-> 0]

\* Midi::new and the statics' initialisers
Init ==
  /\ SPEED = 1
  /\ IS_PLAY = FALSE
  /\ PLAYING = FALSE
  /\ PAUSE = FALSE
  /\ file_name = None
  /\ events = << >>
  /\ eventsLock = 0
  /\ aborted = FALSE
  /\ pc = [w \in Workers |-> "idle"]
  /\ tuned = [w \in Workers |-> FALSE]
  /\ shift = [w \in Workers |-> 0]
  /\ len = [w \in Workers |-> 0]
  /\ up_n = [w \in Workers |-> 0]
  /\ up_max = [w \in Workers |-> 0]
  /\ up_shift = [w \in Workers |-> 0]
  /\ down_n = [w \in Workers |-> 0]
  /\ down_max = [w \in Workers |-> 0]
  /\ down_shift = [w \in Workers |-> 0]
  /\ downBy = [w \in Workers |-> 0]
  /\ idx = [w \in Workers |-> 0]
  /\ path = [w \in Workers |-> None]
  /\ sink = [w \in Workers |-> << >>]
  /\ snap = [w \in Workers |-> << >>]
  /\ observedAt = [w \in Workers |-> 0]
  /\ pausedSeen = [w \in Workers |-> FALSE]
  /\ sinkSincePause = 0
  /\ fileBefore = [w \in Workers |-> None]
  /\ InitLocals

\* ------------------------------------------------------------ controller
\* play / stop control: IS_PLAY.store(b)
SetIsPlay(b) ==
  /\ ~aborted
  /\ IS_PLAY # b
  /\ IS_PLAY' = b
  /\ UNCHANGED << SPEED, PLAYING, PAUSE, shared, pc, locals, history >>

\* pause control: PAUSE.store(b)
SetPause(b) ==
  /\ ~aborted
  /\ PAUSE # b
  /\ PAUSE' = b
  /\ sinkSincePause' = 0
  /\ UNCHANGED << SPEED, IS_PLAY, PLAYING, shared, pc, locals, sink, snap,
                  observedAt, pausedSeen, fileBefore, scored, parsed, timehist >>

\* speed control: SPEED.store(s)
SetSpeed(s) ==
  /\ ~aborted
  /\ SPEED # s
  /\ SPEED' = s
  /\ UNCHANGED << IS_PLAY, PLAYING, PAUSE, shared, pc, locals, history >>

\* ------------------------------------------------------- extraction task
\* Midi::init: pool.spawn; the closure starts and the file dialog opens
InitStart(w) ==
  /\ ~aborted
  /\ Spawns(w)
  /\ pc' = [pc EXCEPT ![w] = "init_dialog"]
  /\ UNCHANGED << atomics, shared, locals, history >>

\* pick_file() returns; on Some(path) the file name is stored at once
InitPick(w) ==
  /\ ~aborted
  /\ pc[w] = "init_dialog"
  /\ \E choice \in Paths \cup {None} :
       IF choice = None
         THEN /\ pc' = [pc EXCEPT ![w] = "idle"]
              /\ UNCHANGED << file_name, path, fileBefore >>
         ELSE /\ file_name' = choice
              /\ path' = [path EXCEPT ![w] = choice]
              /\ fileBefore' = [fileBefore EXCEPT ![w] = file_name]
              /\ pc' = [pc EXCEPT ![w] = "init_read"]
  /\ UNCHANGED << atomics, events, eventsLock, aborted, tuned, shift, len,
                  scan, idx, sink, snap, observedAt, pausedSeen,
                  sinkSincePause, smf, clock, scored, parsed, timehist >>

\* std::fs::read(path).unwrap(); Smf::parse(&file).unwrap(); the walk.
\* A panic in a closure spawned on a pool built without panic_handler
\* aborts the process: no statement of any thread runs once `aborted` is set.
InitParse(w) ==
  /\ ~aborted
  /\ pc[w] = "init_read"
  /\ IF ReadOk(path[w])
       THEN /\ pc' = [pc EXCEPT ![w] = "init_store"]
            /\ smf' = [smf EXCEPT ![w] = FileContent(path[w])]
            /\ UNCHANGED aborted
       ELSE /\ pc' = [pc EXCEPT ![w] = "panicked"]
            /\ aborted' = TRUE
            /\ UNCHANGED smf
  /\ UNCHANGED << atomics, file_name, events, eventsLock, tuned, shift, len,
                  scan, idx, path, clock, history >>

\* *mid.events.lock().unwrap() = raw_events ... .collect()
InitStore(w) ==
  /\ ~aborted
  /\ pc[w] = "init_store"
  /\ eventsLock = 0
  /\ events' = extract(smf[w])
  /\ parsed' = << smf[w] >>
  /\ path' = [path EXCEPT ![w] = None]
  /\ smf' = [smf EXCEPT ![w] = None]
  /\ fileBefore' = [fileBefore EXCEPT ![w] = None]
  /\ pc' = [pc EXCEPT ![w] = "idle"]
  /\ UNCHANGED << atomics, file_name, eventsLock, aborted, tuned, shift, len,
                  scan, idx, sink, snap, observedAt, pausedSeen,
                  sinkSincePause, clock, scored, timehist >>

\* --------------------------------------------------------- playback task
\* Midi::playback: pool.spawn; the closure starts:
\* PLAYING.store(true); let mut shift = 0; if tuned {..}
PlaybackStart(w, t) ==
  /\ ~aborted
  /\ Spawns(w)
  /\ PLAYING' = TRUE
  /\ tuned' = [tuned EXCEPT ![w] = t]
  /\ shift' = [shift EXCEPT ![w] = 0]
  /\ pc' = [pc EXCEPT ![w] = IF t THEN "tune_len" ELSE "play_lock"]
  /\ UNCHANGED << SPEED, IS_PLAY, PAUSE, shared, len, scan, idx, path, smf,
                  clock, history >>

\* tune: let len = events.lock().unwrap().len() as f32
TuneLen(w) ==
  /\ ~aborted
  /\ pc[w] = "tune_len"
  /\ eventsLock = 0
  /\ len' = [len EXCEPT ![w] = Len(events)]
  /\ scored' = [scored EXCEPT ![w] = events]
  /\ pc' = [pc EXCEPT ![w] = "tune_up"]
  /\ UNCHANGED << atomics, shared, tuned, shift, scan, idx, path, smf, clock,
                  sink, snap, observedAt, pausedSeen, sinkSincePause,
                  fileBefore, parsed, timehist >>

\* first closure of rayon::join, one call of tune_offset(.., true): the
\* sequence is locked for the count, the recursion goes on after the unlock
TuneOffsetUp(w) ==
  /\ ~aborted
  /\ pc[w] = "tune_up"
  /\ eventsLock = 0
  /\ LET offset == up_n[w]
         hit == HitCount(events, offset)
         better == HitGt(hit, up_max[w], len[w])
     IN  /\ up_n' = [up_n EXCEPT ![w] = @ + 1]
         /\ up_max' = [up_max EXCEPT ![w] = IF better THEN hit ELSE @]
         /\ up_shift' = [up_shift EXCEPT ![w] = IF better THEN offset ELSE @]
         /\ pc' = [pc EXCEPT ![w] =
                     IF ScanStop(offset, TRUE)
                       THEN IF downBy[w] = 0 THEN "tune_down" ELSE "tune_join"
                       ELSE @]
  /\ UNCHANGED << atomics, shared, tuned, shift, len, down_n, down_max,
                  down_shift, downBy, idx, path, smf, clock, history >>

\* rayon::join: the idle worker v steals the second closure of w's join
StealDown(v, w) ==
  /\ ~aborted
  /\ v # w
  /\ pc[v] = "idle"
  /\ pc[w] = "tune_up"
  /\ downBy[w] = 0
  /\ downBy' = [downBy EXCEPT ![w] = v]
  /\ pc' = [pc EXCEPT ![v] = "steal"]
  /\ UNCHANGED << atomics, shared, tuned, shift, len, up_n, up_max, up_shift,
                  down_n, down_max, down_shift, idx, path, smf, clock,
                  history >>

\* second closure of rayon::join, one call of tune_offset(.., false), run by
\* worker v for the session of worker w (v = w unless the closure was stolen)
TuneOffsetDown(v) ==
  /\ ~aborted
  /\ eventsLock = 0
  /\ \E w \in Workers :
       /\ \/ v = w /\ pc[w] = "tune_down"
          \/ v # w /\ pc[v] = "steal" /\ downBy[w] = v
       /\ LET offset == -down_n[w]
              hit == HitCount(events, offset)
              better == HitGt(hit, down_max[w], len[w])
          IN  /\ down_n' = [down_n EXCEPT ![w] = @ + 1]
              /\ down_max' = [down_max EXCEPT ![w] = IF better THEN hit ELSE @]
              /\ down_shift' =
                   [down_shift EXCEPT ![w] = IF better THEN -offset ELSE @]
              /\ pc' = [pc EXCEPT ![v] =
                          IF ScanStop(offset, FALSE)
                            THEN IF v = w THEN "tune_join" ELSE "idle"
                            ELSE @]
  /\ UNCHANGED << atomics, shared, tuned, shift, len, up_n, up_max, up_shift,
                  downBy, idx, path, smf, clock, history >>

\* the join point of tune: both closures are done, the offsets are combined
TuneReturn(w) ==
  /\ ~aborted
  /\ pc[w] = "tune_join"
  /\ \A v \in Workers : downBy[w] = v => pc[v] # "steal"
  /\ shift' = [shift EXCEPT ![w] = Combine(up_shift[w], down_shift[w])]
  /\ len' = [len EXCEPT ![w] = 0]
  /\ up_n' = [up_n EXCEPT ![w] = 0]
  /\ up_max' = [up_max EXCEPT ![w] = 0]
  /\ up_shift' = [up_shift EXCEPT ![w] = 0]
  /\ down_n' = [down_n EXCEPT ![w] = 0]
  /\ down_max' = [down_max EXCEPT ![w] = 0]
  /\ down_shift' = [down_shift EXCEPT ![w] = 0]
  /\ downBy' = [downBy EXCEPT ![w] = 0]
  /\ pc' = [pc EXCEPT ![w] = "play_lock"]
  /\ UNCHANGED << atomics, shared, tuned, idx, path, smf, clock, history >>

\* play: let events = self.events.lock().unwrap(); the guard lives until
\* play returns
PlayLock(w) ==
  /\ ~aborted
  /\ pc[w] = "play_lock"
  /\ eventsLock = 0
  /\ eventsLock' = Guard(w)
  /\ idx' = [idx EXCEPT ![w] = 1]
  /\ snap' = [snap EXCEPT ![w] = events]
  /\ input_time' = [input_time EXCEPT ![w] = 0]
  /\ playback_time' = [playback_time EXCEPT ![w] = 0]
  /\ pc' = [pc EXCEPT ![w] = LoopPc(1, Len(events))]
  /\ UNCHANGED << atomics, file_name, events, aborted, tuned, shift, len,
                  scan, path, smf, sink, observedAt, pausedSeen,
                  sinkSincePause, fileBefore, scored, parsed, timehist >>

\* if PAUSE.load(Relaxed) { loop {..} }
PauseCheck(w) ==
  /\ ~aborted
  /\ pc[w] = "pause_check"
  /\ pc' = [pc EXCEPT ![w] = PauseBranch(PAUSE)]
  /\ UNCHANGED << atomics, shared, locals, history >>

\* loop { if !PAUSE.load(Relaxed) { input_time = ..; start_time = ..; break } }
\* While PAUSE is set the loop spins and changes nothing.
PauseSpin(w) ==
  /\ ~aborted
  /\ pc[w] = "pause_spin"
  /\ ~PAUSE
  /\ idx' = [idx EXCEPT ![w] = ResumeIndex(@)]
  /\ input_time' = [input_time EXCEPT ![w] = ResumeInput(events[idx[w]].delay)]
  /\ playback_time' = [playback_time EXCEPT ![w] = 0]
  /\ segSum' = [segSum EXCEPT ![w] = @ + input_time[w]]
  /\ pausedSeen' = [pausedSeen EXCEPT ![w] = TRUE]
  /\ pc' = [pc EXCEPT ![w] =
              IF ResumeIndex(idx[w]) <= Len(events)
                THEN "schedule" ELSE "play_end"]
  /\ UNCHANGED << atomics, shared, tuned, shift, len, scan, path, smf, sink,
                  snap, observedAt, sinkSincePause, fileBefore, scored, parsed, owed,
                  readAt, wokeAt >>

\* input_time += e.delay / SPEED.load(Relaxed);
\* let playback_time = (Local::now().timestamp_millis() - start_time) as f64;
\* let current_time = (input_time - playback_time) as u64;
\* if current_time > 0 { sleep(Duration::from_millis(current_time)); }
\* The sleep ends current_time ms after the clock was read.
Schedule(w) ==
  /\ ~aborted
  /\ pc[w] = "schedule"
  /\ SPEED \in Speeds
  /\ LET due == SpeedAdjusted(events[idx[w]].delay, SPEED)
         input == input_time[w] + due
         read == playback_time[w]
     IN  /\ input_time' = [input_time EXCEPT ![w] = input]
         /\ playback_time' =
              [playback_time EXCEPT ![w] = read + current_time(input, read)]
         /\ readAt' = [readAt EXCEPT ![w] = read]
         /\ wokeAt' = [wokeAt EXCEPT ![w] = read + current_time(input, read)]
         /\ owed' = [owed EXCEPT ![w] = @ + due]
  /\ pc' = [pc EXCEPT ![w] = "cancel_check"]
  /\ UNCHANGED << atomics, shared, tuned, shift, len, scan, idx, path, smf,
                  sink, snap, observedAt, pausedSeen, sinkSincePause,
                  fileBefore, scored, parsed, segSum >>

\* a millisecond passes on the wall clock before the session reads it:
\* Local::now().timestamp_millis() - start_time grows by one. The clock is
\* read nowhere else in the loop, so time that passes at the other statements
\* shows as ticks before the next reading.
ClockTick(w) ==
  /\ ~aborted
  /\ pc[w] = "schedule"
  /\ playback_time[w] < MaxClock
  /\ playback_time' = [playback_time EXCEPT ![w] = @ + 1]
  /\ UNCHANGED << atomics, shared, pc, tuned, shift, len, scan, idx, path,
                  smf, input_time, history >>

\* match IS_PLAY.load(Relaxed) { true => f(e.press), false => break }
CancelCheck(w) ==
  /\ ~aborted
  /\ pc[w] = "cancel_check"
  /\ observedAt' = [observedAt EXCEPT ![w] = IF IS_PLAY THEN @ ELSE idx[w]]
  /\ IF CancelBranch(IS_PLAY) = "sink"
       THEN /\ sink' = [sink EXCEPT ![w] =
                          Append(@, Delivered(events[idx[w]].press, shift[w]))]
            /\ sinkSincePause' =
                 IF PAUSE
                   THEN IF sinkSincePause < MaxSinkCount
                          THEN sinkSincePause + 1 ELSE sinkSincePause
                   ELSE 0
            /\ idx' = [idx EXCEPT ![w] = @ + 1]
            /\ pc' = [pc EXCEPT ![w] = LoopPc(idx[w] + 1, Len(events))]
       ELSE /\ pc' = [pc EXCEPT ![w] = "play_end"]
            /\ UNCHANGED << sink, sinkSincePause, idx >>
  /\ readAt' = [readAt EXCEPT ![w] = 0]
  /\ wokeAt' = [wokeAt EXCEPT ![w] = 0]
  /\ UNCHANGED << atomics, shared, tuned, shift, len, scan, path, smf, clock,
                  snap, pausedSeen, fileBefore, scored, parsed, owed, segSum >>

\* play returns: the guard of the events mutex is dropped
PlayReturn(w) ==
  /\ ~aborted
  /\ pc[w] = "play_end"
  /\ eventsLock' = 0
  /\ input_time' = [input_time EXCEPT ![w] = 0]
  /\ playback_time' = [playback_time EXCEPT ![w] = 0]
  /\ owed' = [owed EXCEPT ![w] = 0]
  /\ segSum' = [segSum EXCEPT ![w] = 0]
  /\ readAt' = [readAt EXCEPT ![w] = 0]
  /\ wokeAt' = [wokeAt EXCEPT ![w] = 0]
  /\ pc' = [pc EXCEPT ![w] = "clear_playing"]
  /\ UNCHANGED << atomics, file_name, events, aborted, tuned, shift, len,
                  scan, idx, path, smf, sink, snap, observedAt, pausedSeen,
                  sinkSincePause, fileBefore, scored, parsed >>

\* PLAYING.store(false, Relaxed)
ClearPlaying(w) ==
  /\ ~aborted
  /\ pc[w] = "clear_playing"
  /\ PLAYING' = FALSE
  /\ pc' = [pc EXCEPT ![w] = "clear_is_play"]
  /\ UNCHANGED << SPEED, IS_PLAY, PAUSE, shared, locals, history >>

\* IS_PLAY.store(false, Relaxed); the closure ends and its locals are dropped
ClearIsPlay(w) ==
  /\ ~aborted
  /\ pc[w] = "clear_is_play"
  /\ IS_PLAY' = FALSE
  /\ pc' = [pc EXCEPT ![w] = "idle"]
  /\ tuned' = [tuned EXCEPT ![w] = FALSE]
  /\ shift' = [shift EXCEPT ![w] = 0]
  /\ idx' = [idx EXCEPT ![w] = 0]
  /\ sink' = [sink EXCEPT ![w] = << >>]
  /\ snap' = [snap EXCEPT ![w] = << >>]
  /\ observedAt' = [observedAt EXCEPT ![w] = 0]
  /\ pausedSeen' = [pausedSeen EXCEPT ![w] = FALSE]
  /\ scored' = [scored EXCEPT ![w] = << >>]
  /\ UNCHANGED << SPEED, PLAYING, PAUSE, shared, len, scan, path, smf, clock,
                  sinkSincePause, fileBefore, parsed, timehist >>

\* ------------------------------------------------------ transcript export
\* convert_from_midi: thread::spawn; the files are created and the loop
\* `for e in midi.events.lock().unwrap().iter()` takes the mutex
ConvertLock ==
  /\ ~aborted
  /\ eventsLock = 0
  /\ eventsLock' = Exporter
  /\ UNCHANGED << atomics, file_name, events, aborted, pc, locals, history >>

\* the loop is over: the guard, a temporary of the for expression, is dropped
ConvertUnlock ==
  /\ ~aborted
  /\ eventsLock = Exporter
  /\ eventsLock' = 0
  /\ UNCHANGED << atomics, file_name, events, aborted, pc, locals, history >>

\* ------------------------------------------------------- specifications
Controller ==
  \/ \E b \in BOOLEAN : SetIsPlay(b)
  \/ \E b \in BOOLEAN : SetPause(b)
  \/ \E s \in Speeds : SetSpeed(s)

InitTask(w) ==
  \/ InitStart(w)
  \/ InitPick(w)
  \/ InitParse(w)
  \/ InitStore(w)

TuneTask(w) ==
  \/ TuneLen(w)
  \/ TuneOffsetUp(w)
  \/ \E v \in Workers : StealDown(w, v)
  \/ TuneOffsetDown(w)
  \/ TuneReturn(w)

PlayTask(w) ==
  \/ \E t \in BOOLEAN : PlaybackStart(w, t)
  \/ PlayLock(w)
  \/ PauseCheck(w)
  \/ PauseSpin(w)
  \/ Schedule(w)
  \/ CancelCheck(w)
  \/ PlayReturn(w)
  \/ ClearPlaying(w)
  \/ ClearIsPlay(w)

WorkerStep(w) == InitTask(w) \/ TuneTask(w) \/ PlayTask(w)

Convert == ConvertLock \/ ConvertUnlock

Next ==
  \/ Controller
  \/ \E w \in Workers : WorkerStep(w)

Spec == Init /\ [][Next]_vars

\* the program with transcript exports going on
NextExport ==
  \/ Controller
  \/ \E w \in Workers : WorkerStep(w)
  \/ Convert

SpecExport == Init /\ [][NextExport]_vars

\* fair scheduling of the pool: a worker that can run its closure's next
\* statement eventually runs it; task submission and the file dialog are the
\* user's and get no fairness
Progress(w) ==
  \/ InitParse(w)
  \/ InitStore(w)
  \/ TuneTask(w)
  \/ PlayLock(w)
  \/ PauseCheck(w)
  \/ PauseSpin(w)
  \/ Schedule(w)
  \/ CancelCheck(w)
  \/ PlayReturn(w)
  \/ ClearPlaying(w)
  \/ ClearIsPlay(w)

\* the player after one successful extraction, with no further extraction
InitLoaded ==
  /\ SPEED = 1
  /\ IS_PLAY = FALSE
  /\ PLAYING = FALSE
  /\ PAUSE = FALSE
  /\ file_name = "a.mid"
  /\ events = Song
  /\ eventsLock = 0
  /\ aborted = FALSE
  /\ pc = [w \in Workers |-> "idle"]
  /\ tuned = [w \in Workers |-> FALSE]
  /\ shift = [w \in Workers |-> 0]
  /\ len = [w \in Workers |-> 0]
  /\ up_n = [w \in Workers |-> 0]
  /\ up_max = [w \in Workers |-> 0]
  /\ up_shift = [w \in Workers |-> 0]
  /\ down_n = [w \in Workers |-> 0]
  /\ down_max = [w \in Workers |-> 0]
  /\ down_shift = [w \in Workers |-> 0]
  /\ downBy = [w \in Workers |-> 0]
  /\ idx = [w \in Workers |-> 0]
  /\ path = [w \in Workers |-> None]
  /\ sink = [w \in Workers |-> << >>]
  /\ snap = [w \in Workers |-> << >>]
  /\ observedAt = [w \in Workers |-> 0]
  /\ pausedSeen = [w \in Workers |-> FALSE]
  /\ sinkSincePause = 0
  /\ fileBefore = [w \in Workers |-> None]
  /\ InitLocals

NextLoaded ==
  \/ Controller
  \/ \E w \in Workers : TuneTask(w) \/ PlayTask(w)

FairSpec ==
  /\ InitLoaded
  /\ [][NextLoaded]_vars
  /\ \A w \in Workers : WF_vars(Progress(w))

\* the tuner applied to every bounded event sequence
InitTune ==
  /\ events \in TuneInputs
  /\ SPEED = 1
  /\ IS_PLAY = FALSE
  /\ PLAYING = FALSE
  /\ PAUSE = FALSE
  /\ file_name = "a.mid"
  /\ eventsLock = 0
  /\ aborted = FALSE
  /\ pc = [w \in Workers |-> "idle"]
  /\ tuned = [w \in Workers |-> FALSE]
  /\ shift = [w \in Workers |-> 0]
  /\ len = [w \in Workers |-> 0]
  /\ up_n = [w \in Workers |-> 0]
  /\ up_max = [w \in Workers |-> 0]
  /\ up_shift = [w \in Workers |-> 0]
  /\ down_n = [w \in Workers |-> 0]
  /\ down_max = [w \in Workers |-> 0]
  /\ down_shift = [w \in Workers |-> 0]
  /\ downBy = [w \in Workers |-> 0]
  /\ idx = [w \in Workers |-> 0]
  /\ path = [w \in Workers |-> None]
  /\ sink = [w \in Workers |-> << >>]
  /\ snap = [w \in Workers |-> << >>]
  /\ observedAt = [w \in Workers |-> 0]
  /\ pausedSeen = [w \in Workers |-> FALSE]
  /\ sinkSincePause = 0
  /\ fileBefore = [w \in Workers |-> None]
  /\ InitLocals

NextTune ==
  \E w \in Workers :
    \/ PlaybackStart(w, TRUE)
    \/ TuneTask(w)

SpecTune == InitTune /\ [][NextTune]_vars

\* the scheduler on every bounded sequence of delays: untuned sessions, one
\* after the other on the first pool worker, with the wall clock advancing
\* under them
InitTime ==
  /\ events \in TimeInputs
  /\ SPEED = 1
  /\ IS_PLAY = FALSE
  /\ PLAYING = FALSE
  /\ PAUSE = FALSE
  /\ file_name = "a.mid"
  /\ eventsLock = 0
  /\ aborted = FALSE
  /\ pc = [w \in Workers |-> "idle"]
  /\ tuned = [w \in Workers |-> FALSE]
  /\ shift = [w \in Workers |-> 0]
  /\ len = [w \in Workers |-> 0]
  /\ up_n = [w \in Workers |-> 0]
  /\ up_max = [w \in Workers |-> 0]
  /\ up_shift = [w \in Workers |-> 0]
  /\ down_n = [w \in Workers |-> 0]
  /\ down_max = [w \in Workers |-> 0]
  /\ down_shift = [w \in Workers |-> 0]
  /\ downBy = [w \in Workers |-> 0]
  /\ idx = [w \in Workers |-> 0]
  /\ path = [w \in Workers |-> None]
  /\ sink = [w \in Workers |-> << >>]
  /\ snap = [w \in Workers |-> << >>]
  /\ observedAt = [w \in Workers |-> 0]
  /\ pausedSeen = [w \in Workers |-> FALSE]
  /\ sinkSincePause = 0
  /\ fileBefore = [w \in Workers |-> None]
  /\ InitLocals

TimedSession(w) ==
  \/ PlaybackStart(w, FALSE)
  \/ PlayLock(w)
  \/ PauseCheck(w)
  \/ PauseSpin(w)
  \/ Schedule(w)
  \/ ClockTick(w)
  \/ CancelCheck(w)
  \/ PlayReturn(w)
  \/ ClearPlaying(w)
  \/ ClearIsPlay(w)

NextTime ==
  \/ Controller
  \/ TimedSession(1)

SpecTime == InitTime /\ [][NextTime]_vars

\* the extraction applied to every bounded file: the init task of worker 1
\* has read and parsed it
InitExtract ==
  /\ smf \in { [w \in Workers |-> IF w = 1 THEN f ELSE None] : f \in SmfInputs }
  /\ parsed = << >>
  /\ pc = [w \in Workers |-> IF w = 1 THEN "init_store" ELSE "idle"]
  /\ path = [w \in Workers |-> IF w = 1 THEN "a.mid" ELSE None]
  /\ file_name = "a.mid"
  /\ events = << >>
  /\ SPEED = 1
  /\ IS_PLAY = FALSE
  /\ PLAYING = FALSE
  /\ PAUSE = FALSE
  /\ eventsLock = 0
  /\ aborted = FALSE
  /\ tuned = [w \in Workers |-> FALSE]
  /\ shift = [w \in Workers |-> 0]
  /\ len = [w \in Workers |-> 0]
  /\ up_n = [w \in Workers |-> 0]
  /\ up_max = [w \in Workers |-> 0]
  /\ up_shift = [w \in Workers |-> 0]
  /\ down_n = [w \in Workers |-> 0]
  /\ down_max = [w \in Workers |-> 0]
  /\ down_shift = [w \in Workers |-> 0]
  /\ downBy = [w \in Workers |-> 0]
  /\ idx = [w \in Workers |-> 0]
  /\ sink = [w \in Workers |-> << >>]
  /\ snap = [w \in Workers |-> << >>]
  /\ observedAt = [w \in Workers |-> 0]
  /\ pausedSeen = [w \in Workers |-> FALSE]
  /\ sinkSincePause = 0
  /\ fileBefore = [w \in Workers |-> None]
  /\ input_time = [w \in Workers |-> 0]
  /\ playback_time = [w \in Workers |-> 0]
  /\ scored = [w \in Workers |-> << >>]
  /\ owed = [w \in Workers |-> 0]
  /\ segSum = [w \in Workers |-> 0]
  /\ readAt = [w \in Workers |-> 0]
  /\ wokeAt = [w \in Workers |-> 0]

NextExtract == \E w \in Workers : InitStore(w)

SpecExtract == InitExtract /\ [][NextExtract]_vars

\* ================================================================ claims

EndPcs == { "play_end", "clear_playing", "clear_is_play" }

\* the sequence a session delivers when it replays `evs` completely
Replayed(evs, s) == [i \in 1..Len(evs) |-> evs[i].press + s]

\* the tuner of worker w has returned
TuneDone(w) == tuned[w] /\ pc[w] = "play_lock"

UpWinner(evs) == ScanWinner(tune_offset(evs, << >>, 0, TRUE), Len(evs))

DownWinner(evs) == ScanWinner(tune_offset(evs, << >>, 0, FALSE), Len(evs))

\* C1: in every state, whatever the controller did, the sink calls of a
\* session are a prefix of the sequence it locked, in order, one call per
\* event gone through, each with argument pitch + shift for the session's one
\* shift, and the shift is 0 when tuning is off.
C1_SinkIsOrderedPrefix ==
  \A w \in Workers :
    /\ Len(sink[w]) <= Len(snap[w])
    /\ \A i \in 1..Len(sink[w]) : sink[w][i] = snap[w][i].press + shift[w]
    /\ pc[w] \in LoopPcs => Len(sink[w]) = idx[w] - 1
    /\ ~tuned[w] => shift[w] = 0

C1_Witness ==
  \E w \in Workers :
    /\ tuned[w]
    /\ shift[w] # 0
    /\ pausedSeen[w]
    /\ SPEED = 2
    /\ Len(sink[w]) = 2

\* C2: once a session has read IS_PLAY false at the check of event k, its
\* sink calls stay those of the k - 1 events before it and it is out of the
\* loop, whatever IS_PLAY becomes afterwards.
C2_NoSinkAfterCancelObserved ==
  \A w \in Workers :
    observedAt[w] # 0 =>
      /\ Len(sink[w]) = observedAt[w] - 1
      /\ pc[w] \in EndPcs

C2_Witness ==
  \E w \in Workers :
    /\ observedAt[w] = 2
    /\ Len(sink[w]) = 1
    /\ IS_PLAY
    /\ pc[w] = "clear_playing"

\* C3: a session that is active while IS_PLAY is false eventually ends,
\* unless IS_PLAY is set again, under fair scheduling of the workers.
C3_CancelEventuallyStops ==
  \A w \in Workers :
    (pc[w] \in PlaybackPcs /\ ~IS_PLAY) ~> (pc[w] \notin PlaybackPcs \/ IS_PLAY)

\* C4: the offset returned by tune has a hit rate at least that of every
\* offset in [-21, 21] (rates over the same non-empty sequence compare as
\* their hit counts).
C4_TuneMaximizesHitRate ==
  \A w \in Workers :
    (TuneDone(w) /\ Len(events) > 0) =>
      \A o \in -ScanLimit..ScanLimit :
        HitCount(events, shift[w]) >= HitCount(events, o)

\* C5: the offset returned by tune lies in [-21, 21].
C5_TuneWithinRange ==
  \A w \in Workers : TuneDone(w) => shift[w] \in -ScanLimit..ScanLimit

\* C6: tune returns the upward winner unless the downward winner's hit rate
\* is strictly greater.
C6_UpwardUnlessDownStrictlyBetter ==
  \A w \in Workers :
    (TuneDone(w) /\ Len(events) > 0) =>
      LET up == UpWinner(events)
          down == DownWinner(events)
      IN  shift[w] = IF HitCount(events, -down) > HitCount(events, up)
                       THEN -down ELSE up

\* C7: while no file was ever picked (so no sequence was extracted) no
\* playback task is running and PLAYING is not set.
C7_NoPlaybackBeforeExtraction ==
  file_name = None =>
    /\ ~PLAYING
    /\ \A w \in Workers : pc[w] \notin PlaybackPcs

\* C8: after an extraction task failed, the stored file name is the one found
\* when the task started.
C8_FailedInitLeavesFileName ==
  \A w \in Workers : pc[w] = "panicked" => file_name = fileBefore[w]

\* C9: a session that ran to the end of the sequence without reading IS_PLAY
\* false has delivered the whole sequence in order, whether or not it was
\* paused and resumed on the way.
C9_PauseKeepsSequence ==
  \A w \in Workers :
    (pc[w] \in EndPcs /\ observedAt[w] = 0) =>
      sink[w] = Replayed(snap[w], shift[w])

C9_Witness ==
  \E w \in Workers :
    /\ pc[w] = "play_end"
    /\ observedAt[w] = 0
    /\ pausedSeen[w]
    /\ Len(sink[w]) = 2

\* C10 as stated: no sink call while PAUSE is set.
C10_NoSinkWhilePaused == PAUSE => sinkSincePause = 0

\* C10 amended: at most one sink call is made between a store of true to
\* PAUSE and the next store of false.
C10_AtMostOneSinkWhilePaused == PAUSE => sinkSincePause <= 1

C10_Witness ==
  /\ PAUSE
  /\ sinkSincePause = 1
  /\ \E w \in Workers : pc[w] = "pause_spin"

\* C11: whatever the pauses, the time a session has scheduled for its events,
\* summed over its run segments, is the sum of their speed-adjusted delays:
\* a resume adds nothing to it.
C11_PauseKeepsScheduledTotal ==
  \A w \in Workers :
    pc[w] = "cancel_check" => segSum[w] + input_time[w] = owed[w]

\* C12: at the step that ends a playback task, by exhaustion or by
\* cancellation, PLAYING and IS_PLAY are both false.
C12_PlayingStateCleared ==
  [][\A w \in Workers :
       (pc[w] = "clear_is_play" /\ pc'[w] = "idle")
         => (~PLAYING' /\ ~IS_PLAY')]_vars

\* C13: the sequence a tuned session replays is the one its tuner scored and
\* took its length from, whatever an extraction task does meanwhile.
C13_SessionSeesOneSequence ==
  \A w \in Workers :
    (tuned[w] /\ pc[w] \in LoopPcs \cup EndPcs) => scored[w] = snap[w]

\* the events of a file by place: << track, position in the track >>
Places(file) ==
  UNION { { << t, i >> : i \in 1..Len(file.tracks[t]) } :
          t \in 1..Len(file.tracks) }

EventAt(file, p) == file.tracks[p[1]][p[2]]

\* absolute tick: the deltas of the track summed up to the place
RECURSIVE DeltaSum(_, _)
DeltaSum(track, i) == IF i = 0 THEN 0 ELSE track[i].delta + DeltaSum(track, i - 1)

TickAt(file, p) == DeltaSum(file.tracks[p[1]], p[2])

\* encounter order: track by track, each track front to back
Encountered(p, q) == p[1] < q[1] \/ (p[1] = q[1] /\ p[2] < q[2])

\* merged order: by tick, ties in encounter order
Before(file, p, q) ==
  \/ TickAt(file, p) < TickAt(file, q)
  \/ TickAt(file, p) = TickAt(file, q) /\ Encountered(p, q)

\* the note-on events with velocity > 0, and the tempo changes
Sounding(file) ==
  { p \in Places(file) :
      EventAt(file, p).kind = "NoteOn" /\ EventAt(file, p).vel > 0 }

TempoChanges(file) == { p \in Places(file) : EventAt(file, p).kind = "Tempo" }

Rank(file, p) == 1 + Cardinality({ q \in Sounding(file) : Before(file, q, p) })

\* the last place of a non-empty set in merged order
LastOf(file, S) == CHOOSE p \in S : \A q \in S : q = p \/ Before(file, q, p)

\* tick of the sounding note-on before p in merged order, 0 for the first
PrevTick(file, p) ==
  LET S == { q \in Sounding(file) : Before(file, q, p) }
  IN  IF S = {} THEN 0 ELSE TickAt(file, LastOf(file, S))

\* tempo set by the last change among S, the default when there is none
TempoOf(file, S) ==
  IF S = {} THEN DefaultTempo ELSE EventAt(file, LastOf(file, S)).tempo

\* C14: the stored sequence has exactly one event per note-on with velocity
\* > 0 of the file, in merged order (by tick, ties in encounter order), with
\* that note-on's pitch; nothing else of the file yields an event.
C14_OneEventPerSoundingNoteOn ==
  Len(parsed) = 1 =>
    /\ Len(events) = Cardinality(Sounding(parsed[1]))
    /\ \A p \in Sounding(parsed[1]) :
         events[Rank(parsed[1], p)].press = EventAt(parsed[1], p).key

C14_Witness ==
  /\ Len(parsed) = 1
  /\ Len(parsed[1].tracks) = 2
  /\ Len(events) = 2
  /\ events[1].press # events[2].press
  /\ \E p, q \in Sounding(parsed[1]) :
       Encountered(p, q) /\ Before(parsed[1], q, p)
  /\ \E p \in Places(parsed[1]) : p \notin Sounding(parsed[1])

\* C15: every event of the stored sequence has a delay >= 0.
C15_DelaysNonNegative ==
  Len(parsed) = 1 => \A i \in 1..Len(events) : events[i].delay >= 0

C15_Witness ==
  /\ Len(parsed) = 1
  /\ Len(events) = 2
  /\ events[2].delay > 0
  /\ \E p, q \in Sounding(parsed[1]) :
       /\ Encountered(p, q)
       /\ TickAt(parsed[1], q) < TickAt(parsed[1], p)

\* C16: a tuned session whose sequence is empty from the length read to the
\* replay comes out of tune with shift 0 and ends without a sink call.
C16_EmptySequenceTunesToZero ==
  \A w \in Workers :
    (/\ tuned[w]
     /\ scored[w] = << >>
     /\ \/ pc[w] = "play_lock" /\ events = << >>
        \/ pc[w] \in EndPcs /\ snap[w] = << >>)
      => shift[w] = 0 /\ sink[w] = << >>

C16_Witness ==
  \E w \in Workers :
    /\ tuned[w]
    /\ scored[w] = << >>
    /\ snap[w] = << >>
    /\ pc[w] = "clear_is_play"
    /\ shift[w] = 0
    /\ ~aborted

\* C17: within a run segment no event is let through before the truncated
\* cumulative schedule; a session that reads the clock at or past the
\* schedule does not sleep, and one that reads it earlier wakes exactly at
\* the truncated schedule, whatever overhead the events before it met.
C17_DriftCorrection ==
  \A w \in Workers :
    pc[w] = "cancel_check" =>
      LET schedule == input_time[w] \div 2
      IN  /\ playback_time[w] >= wokeAt[w]
          /\ wokeAt[w] >= schedule
          /\ readAt[w] >= schedule => wokeAt[w] = readAt[w]
          /\ readAt[w] < schedule => wokeAt[w] = schedule

C17_Witness ==
  \E w \in Workers :
    /\ pc[w] = "cancel_check"
    /\ idx[w] = 2
    /\ input_time[w] % 2 = 1
    /\ readAt[w] > 0
    /\ wokeAt[w] > readAt[w]

\* C18 as stated: the delay of every emitted note-on is computed with the
\* tempo of the last tempo change at or before the note's tick, wherever in
\* the file that change stands.
C18_TempoAtSameTickComesFirst ==
  Len(parsed) = 1 =>
    \A p \in Sounding(parsed[1]) :
      events[Rank(parsed[1], p)].delay =
        DelayMs(TickAt(parsed[1], p) - PrevTick(parsed[1], p),
                TempoOf(parsed[1],
                        { q \in TempoChanges(parsed[1]) :
                            TickAt(parsed[1], q) <= TickAt(parsed[1], p) }),
                Fps(parsed[1]))

\* C18 amended: the delay is computed with the tempo of the last tempo change
\* before the note in merged order: a change at the note's own tick counts
\* only if it is encountered first (an earlier track, or earlier in the
\* note's track).
C18_TempoInEncounterOrder ==
  Len(parsed) = 1 =>
    \A p \in Sounding(parsed[1]) :
      events[Rank(parsed[1], p)].delay =
        DelayMs(TickAt(parsed[1], p) - PrevTick(parsed[1], p),
                TempoOf(parsed[1],
                        { q \in TempoChanges(parsed[1]) :
                            Before(parsed[1], q, p) }),
                Fps(parsed[1]))

C18_Witness ==
  /\ Len(parsed) = 1
  /\ \E p \in Sounding(parsed[1]) :
       /\ events[Rank(parsed[1], p)].delay > 0
       /\ \E q \in TempoChanges(parsed[1]) :
            /\ TickAt(parsed[1], q) = TickAt(parsed[1], p)
            /\ q[1] < p[1]
       /\ \E q \in TempoChanges(parsed[1]) :
            /\ TickAt(parsed[1], q) = TickAt(parsed[1], p)
            /\ Encountered(p, q)

\* C19: a session that is in its replay loop holds the events mutex from its
\* first event to its last: no other session is in its loop, no extraction
\* result is installed and no transcript export reads the sequence meanwhile.
C19_ReplayLoopsExclusive ==
  \A w \in Workers :
    pc[w] \in LoopPcs \cup {"play_end"} =>
      /\ eventsLock = w
      /\ events = snap[w]
      /\ \A v \in Workers \ {w} :
           /\ pc[v] \notin LoopPcs \cup {"play_end"}
           /\ pc[v] \in EndPcs \/ sink[v] = << >>

C19_Witness ==
  /\ pc[1] = "cancel_check"
  /\ Len(sink[1]) = 1
  /\ pc[2] = "play_lock"
  /\ eventsLock = 1

\* C20: PLAYING is true in every state in which some playback task is in its
\* tuning or replay phase, overlapping sessions included.
C20_PlayingWhileSessionActive ==
  (\E w \in Workers :
     pc[w] \in { "tune_len", "tune_up", "tune_down", "tune_join", "play_lock",
                 "pause_check", "pause_spin", "schedule", "cancel_check",
                 "play_end" })
    => PLAYING

====
